---- MODULE Spec2Model ----
(***************************************************************************)
(* Model of the Virgo DTX server (src/server/main.py): the line-directive  *)
(* parser, the DTX metadata extractor, the SET.def extractor, the          *)
(* encoding-tolerant reader, the song-folder aggregator and /dtx/list.     *)
(*                                                                         *)
(* A Python str is a sequence of one-character strings.  Python's None is  *)
(* the one-element sequence None, which is no str because its element has  *)
(* more than one character.  A Python int n is <<"int", n>> and a float    *)
(* is <<"float", num, den>> (the decimal num/den, den a power of ten,      *)
(* without trailing fractional zeros).  A dict is a function on its keys;  *)
(* where the code depends on the insertion order of a dict, the order of   *)
(* the keys is kept alongside.                                             *)
(***************************************************************************)
EXTENDS Integers, Sequences, FiniteSets, TLC

VARIABLES
    \* one call of parse_dtx_line
    pl_key, pl_val, pl_style, pl_line, pl_out,
    \* one run of the metadata loop (parse_dtx_metadata / get_dtx_metadata)
    md_handler, md_content, md_lines, md_i, md_metadata, md_pc,
    \* one run of the line loop of parse_set_def
    sd_content, sd_lines, sd_i, song_info, sd_pc,
    \* one read of SET.def by parse_set_def
    rd_bytes, rd_idx, rd_tried, rd_content, rd_pc,
    \* one call of parse_song_folder
    sf_folder, set_info, sf_k, song_data, sf_pc,
    \* one request GET /dtx/list
    ls_entries, ls_i, songs, ls_response, ls_pc

lineVars == <<pl_key, pl_val, pl_style, pl_line, pl_out>>
metaVars == <<md_handler, md_content, md_lines, md_i, md_metadata, md_pc>>
setVars == <<sd_content, sd_lines, sd_i, song_info, sd_pc>>
readVars == <<rd_bytes, rd_idx, rd_tried, rd_content, rd_pc>>
songVars == <<sf_folder, set_info, sf_k, song_data, sf_pc>>
listVars == <<ls_entries, ls_i, songs, ls_response, ls_pc>>
vars == <<lineVars, metaVars, setVars, readVars, songVars, listVars>>

\* what the actions of one component leave alone
notLine == <<metaVars, setVars, readVars, songVars, listVars>>
notMeta == <<lineVars, setVars, readVars, songVars, listVars>>
notSet == <<lineVars, metaVars, readVars, songVars, listVars>>
notRead == <<lineVars, metaVars, setVars, songVars, listVars>>
notSong == <<lineVars, metaVars, setVars, readVars, listVars>>
notList == <<lineVars, metaVars, setVars, readVars, songVars>>

----------------------------------------------------------------------------
(* Bounds of the model. *)
MaxValLen == 3
MaxMetaLines == 3
MaxSetLines == 3
MaxBytes == 3
MaxEntries == 3

----------------------------------------------------------------------------
(* Python values. *)
None == <<"None">>
PyInt(n) == <<"int", n>>
PyFloat(num, den) == <<"float", num, den>>

Whitespace == {" ", "\t", "\r"}
Digits == {"0", "1", "2", "3", "4", "5", "6", "7", "8", "9"}

(* str.lstrip(), str.rstrip(), str.strip() *)
RECURSIVE LStrip(_)
LStrip(s) ==
    IF s # <<>> /\ Head(s) \in Whitespace THEN LStrip(Tail(s)) ELSE s

RECURSIVE RStrip(_)
RStrip(s) ==
    IF s # <<>> /\ s[Len(s)] \in Whitespace
    THEN RStrip(SubSeq(s, 1, Len(s) - 1)) ELSE s

Strip(s) == RStrip(LStrip(s))

(* str.startswith(p) *)
StartsWith(s, p) ==
    /\ Len(p) <= Len(s)
    /\ SubSeq(s, 1, Len(p)) = p

(* s[n:] *)
Drop(s, n) == SubSeq(s, n + 1, Len(s))

(* str.find(p) + 1: the position of the first occurrence of p, 0 if none *)
Find(s, p) ==
    LET hits == {i \in 1..(Len(s) - Len(p) + 1) : SubSeq(s, i, i + Len(p) - 1) = p}
    IN  IF hits = {} THEN 0
        ELSE CHOOSE i \in hits : \A j \in hits : i <= j

(* p in s *)
Contains(s, p) == Find(s, p) # 0

(* str.split(sep): every non-overlapping occurrence of sep, left to right *)
RECURSIVE Split(_, _)
Split(s, sep) ==
    LET i == Find(s, sep)
    IN  IF i = 0 THEN <<s>>
        ELSE <<SubSeq(s, 1, i - 1)>> \o Split(Drop(s, i + Len(sep) - 1), sep)

(* str.endswith(p) *)
EndsWith(s, p) ==
    /\ Len(p) <= Len(s)
    /\ SubSeq(s, Len(s) - Len(p) + 1, Len(s)) = p

(* "\n".join(lines) *)
RECURSIVE Join(_)
Join(lines) ==
    IF lines = <<>> THEN <<>>
    ELSE IF Len(lines) = 1 THEN lines[1]
    ELSE lines[1] \o <<"\n">> \o Join(Tail(lines))

(* dict[k] = v and dict.get(k, default) *)
Put(d, k, v) == [x \in DOMAIN d \cup {k} |-> IF x = k THEN v ELSE d[x]]
Get(d, k, default) == IF k \in DOMAIN d THEN d[k] ELSE default
EmptyDict == [x \in {} |-> None]

----------------------------------------------------------------------------
(* The ASCII codes of the characters of the model, for str <-> bytes and   *)
(* for str.upper(), str.lower() and str.title().                           *)
Ord ==
    ("\t" :> 9) @@ ("\n" :> 10) @@ (" " :> 32) @@ ("#" :> 35) @@ ("+" :> 43) @@
    ("-" :> 45) @@ ("." :> 46) @@ (":" :> 58) @@ (";" :> 59) @@ ("_" :> 95) @@
    ("0" :> 48) @@ ("1" :> 49) @@ ("2" :> 50) @@ ("3" :> 51) @@ ("4" :> 52) @@
    ("5" :> 53) @@ ("6" :> 54) @@ ("7" :> 55) @@ ("8" :> 56) @@ ("9" :> 57) @@
    ("A" :> 65) @@ ("B" :> 66) @@ ("C" :> 67) @@ ("D" :> 68) @@ ("E" :> 69) @@
    ("F" :> 70) @@ ("G" :> 71) @@ ("H" :> 72) @@ ("I" :> 73) @@ ("J" :> 74) @@
    ("K" :> 75) @@ ("L" :> 76) @@ ("M" :> 77) @@ ("N" :> 78) @@ ("O" :> 79) @@
    ("P" :> 80) @@ ("Q" :> 81) @@ ("R" :> 82) @@ ("S" :> 83) @@ ("T" :> 84) @@
    ("U" :> 85) @@ ("V" :> 86) @@ ("W" :> 87) @@ ("X" :> 88) @@ ("Y" :> 89) @@
    ("Z" :> 90) @@ ("a" :> 97) @@ ("b" :> 98) @@ ("c" :> 99) @@ ("d" :> 100) @@
    ("e" :> 101) @@ ("f" :> 102) @@ ("g" :> 103) @@ ("h" :> 104) @@ ("i" :> 105) @@
    ("j" :> 106) @@ ("k" :> 107) @@ ("l" :> 108) @@ ("m" :> 109) @@ ("n" :> 110) @@
    ("o" :> 111) @@ ("p" :> 112) @@ ("q" :> 113) @@ ("r" :> 114) @@ ("s" :> 115) @@
    ("t" :> 116) @@ ("u" :> 117) @@ ("v" :> 118) @@ ("w" :> 119) @@ ("x" :> 120) @@
    ("y" :> 121) @@ ("z" :> 122)

Chr(n) == CHOOSE c \in DOMAIN Ord : Ord[c] = n

(* the bytes of an ASCII text, and the text of ASCII code points *)
AsciiBytes(text) == [i \in 1..Len(text) |-> Ord[text[i]]]
Text(cps) == [i \in 1..Len(cps) |-> Chr(cps[i])]

IsUpper(c) == Ord[c] >= 65 /\ Ord[c] <= 90
IsLower(c) == Ord[c] >= 97 /\ Ord[c] <= 122
UpperChar(c) == IF IsLower(c) THEN Chr(Ord[c] - 32) ELSE c
LowerChar(c) == IF IsUpper(c) THEN Chr(Ord[c] + 32) ELSE c

(* str.upper(), str.lower() *)
Upper(s) == [i \in 1..Len(s) |-> UpperChar(s[i])]
Lower(s) == [i \in 1..Len(s) |-> LowerChar(s[i])]

(* str.title(): a letter after a non-letter is upper-cased, any other      *)
(* letter lower-cased.                                                     *)
Title(s) ==
    [i \in 1..Len(s) |->
        IF i = 1 \/ ~(IsUpper(s[i - 1]) \/ IsLower(s[i - 1]))
        THEN UpperChar(s[i]) ELSE LowerChar(s[i])]

(* str.replace(a, b) for single characters *)
ReplaceChar(s, a, b) == [i \in 1..Len(s) |-> IF s[i] = a THEN b ELSE s[i]]

----------------------------------------------------------------------------
(* int(str) and float(str) on the decimal literals over the characters of  *)
(* the model: surrounding whitespace, an optional sign, digits and, for    *)
(* float, one decimal point.  Any other text raises ValueError.            *)
ValueError == <<"ValueError">>

DigitValue ==
    ("0" :> 0) @@ ("1" :> 1) @@ ("2" :> 2) @@ ("3" :> 3) @@ ("4" :> 4) @@
    ("5" :> 5) @@ ("6" :> 6) @@ ("7" :> 7) @@ ("8" :> 8) @@ ("9" :> 9)

AllDigits(s) == \A i \in 1..Len(s) : s[i] \in Digits

RECURSIVE DecimalValue(_)
DecimalValue(s) ==
    IF s = <<>> THEN 0
    ELSE 10 * DecimalValue(SubSeq(s, 1, Len(s) - 1)) + DigitValue[s[Len(s)]]

RECURSIVE Pow10(_)
Pow10(n) == IF n = 0 THEN 1 ELSE 10 * Pow10(n - 1)

RECURSIVE DropTrailingZeros(_)
DropTrailingZeros(s) ==
    IF s # <<>> /\ s[Len(s)] = "0"
    THEN DropTrailingZeros(SubSeq(s, 1, Len(s) - 1)) ELSE s

Unsigned(s) == IF s # <<>> /\ s[1] \in {"+", "-"} THEN Tail(s) ELSE s
SignOf(s) == IF s # <<>> /\ s[1] = "-" THEN -1 ELSE 1

ParseInt(str) ==
    LET s == Strip(str)
        d == Unsigned(s)
    IN  IF d # <<>> /\ AllDigits(d) THEN PyInt(SignOf(s) * DecimalValue(d))
        ELSE ValueError

ParseFloat(str) ==
    LET s    == Strip(str)
        d    == Unsigned(s)
        dot  == Find(d, <<".">>)
        ip   == IF dot = 0 THEN d ELSE SubSeq(d, 1, dot - 1)
        fp   == IF dot = 0 THEN <<>> ELSE Drop(d, dot)
        frac == DropTrailingZeros(fp)
    IN  IF AllDigits(ip) /\ AllDigits(fp) /\ (ip # <<>> \/ fp # <<>>)
        THEN PyFloat(SignOf(s) * DecimalValue(ip \o frac), Pow10(Len(frac)))
        ELSE ValueError

(* Python truthiness of None, "" and 0.0 (bool(x) is False), as `not x`    *)
(* and `x and ...` test it.                                                *)
Falsy(x) ==
    \/ x = None
    \/ x = <<>>
    \/ (Len(x) = 3 /\ x[1] = "float" /\ x[2] = 0)

----------------------------------------------------------------------------
(* parse_dtx_line with the value after the colon left untrimmed *)
parse_dtx_line_untrimmed(line, key) ==
    LET stripped   == Strip(line)
        prefix     == <<"#">> \o key
        value_part == Strip(Drop(stripped, Len(prefix)))
    IN  IF ~StartsWith(stripped, prefix) THEN None
        ELSE IF StartsWith(value_part, <<":">>) THEN Drop(value_part, 1)
        ELSE value_part

(* parse_dtx_line(line, key) *)
parse_dtx_line(line, key) ==
    LET stripped   == Strip(line)
        prefix     == <<"#">> \o key
        value_part == Strip(Drop(stripped, Len(prefix)))
    IN  IF ~StartsWith(stripped, prefix) THEN None
        ELSE IF StartsWith(value_part, <<":">>) THEN Strip(Drop(value_part, 1))
        ELSE value_part

----------------------------------------------------------------------------
(* Character sequences of the directive keys. *)
Hash == <<"#">>
TITLE == <<"T", "I", "T", "L", "E">>
ARTIST == <<"A", "R", "T", "I", "S", "T">>
BPM == <<"B", "P", "M">>
DLEVEL == <<"D", "L", "E", "V", "E", "L">>
Keys == {TITLE, ARTIST, BPM, DLEVEL}

SeqsUpTo(S, n) == UNION {[1..k -> S] : k \in 0..n}

----------------------------------------------------------------------------
(* Calls of parse_dtx_line.  A call is made on a line written in one of    *)
(* the three separator styles around a value, or on a raw line.            *)
ValAlphabet == {"1", "a", ":", " "}
Values == SeqsUpTo(ValAlphabet, MaxValLen)
Pads == {<<>>, <<" ">>, <<"\t", " ">>}
Styles == {"colon", "space", "direct"}
RawHeads == {<<>>, <<"#">>, <<"#", "B", "P">>, <<"B", "P", "M">>,
             <<"#", "b", "p", "m">>, <<"a", "#", "B", "P", "M">>,
             <<"#", " ", "B", "P", "M">>}

Separator(style) ==
    CASE style = "colon" -> <<":", " ">>
      [] style = "space" -> <<" ">>
      [] style = "direct" -> <<>>

LineIdle ==
    /\ pl_key = <<>>
    /\ pl_val = <<>>
    /\ pl_style = "none"
    /\ pl_line = <<>>
    /\ pl_out = None

(* parse_dtx_line(lead + "#" + key + separator + value + trail, key) *)
CallStyled ==
    /\ pl_style = "none"
    /\ \E key \in Keys, v \in Values, style \in Styles, lead \in Pads, trail \in Pads :
           LET line == lead \o Hash \o key \o Separator(style) \o v \o trail
           IN  /\ pl_key' = key
               /\ pl_val' = v
               /\ pl_style' = style
               /\ pl_line' = line
               /\ pl_out' = parse_dtx_line(line, key)
               /\ UNCHANGED notLine

(* parse_dtx_line(line, key) on a line that need not be a directive of key *)
CallRaw ==
    /\ pl_style = "none"
    /\ \E key \in Keys, h \in RawHeads, v \in Values, lead \in Pads :
           LET line == lead \o h \o v
           IN  /\ pl_key' = key
               /\ pl_val' = v
               /\ pl_style' = "raw"
               /\ pl_line' = line
               /\ pl_out' = parse_dtx_line(line, key)
               /\ UNCHANGED notLine

LineNext == CallStyled \/ CallRaw

(* C4: for a value with no leading or trailing whitespace that does not    *)
(* begin with ':', the lines "#K: v", "#K v" and "#Kv", with any           *)
(* surrounding whitespace, all yield exactly v; a line that does not start *)
(* with "#K" after trimming yields None.                                   *)
WellFormedValue(v) ==
    /\ v = <<>> \/ (v[1] \notin Whitespace /\ v[Len(v)] \notin Whitespace)
    /\ v = <<>> \/ v[1] # ":"

SeparatorStylesAgree ==
    /\ (pl_style \in Styles /\ WellFormedValue(pl_val)) => pl_out = pl_val
    /\ (pl_style = "raw" /\ ~StartsWith(Strip(pl_line), Hash \o pl_key))
           => pl_out = None

SeparatorStylesAgreeWitness ==
    /\ pl_style = "direct"
    /\ pl_key = BPM
    /\ pl_val = <<"1", " ", "a">>
    /\ pl_line = <<"\t", " ", "#", "B", "P", "M", "1", " ", "a", " ">>
    /\ pl_out = pl_val

----------------------------------------------------------------------------
(* Reading a file: open(path, 'r', encoding=e) and file.read().            *)
(* A file is its bytes (0..255); a decoded str is <<"str", code points>>.  *)
(* file.read() hands the whole file to the codec's incremental decoder     *)
(* with final=True, so a decode either yields a str or raises.  The        *)
(* decoders are those of CPython on a little-endian machine, for the bytes *)
(* of the model.                                                           *)
UnicodeDecodeError == <<"UnicodeDecodeError">>
UnicodeError == <<"UnicodeError">>
PyStr(cps) == <<"str", cps>>
IsException(r) == Len(r) = 1

ByteAlphabet == {65, 129, 220, 227, 254, 255}

(* UTF-16 code units of an even-length byte string *)
CodeUnits(bs, little) ==
    [i \in 1..(Len(bs) \div 2) |->
        IF little THEN bs[2 * i - 1] + 256 * bs[2 * i]
        ELSE 256 * bs[2 * i - 1] + bs[2 * i]]

IsHighSurrogate(u) == u >= 55296 /\ u <= 56319
IsLowSurrogate(u) == u >= 56320 /\ u <= 57343

(* the first position of s whose element is in T, Len(s) + 1 if there is  *)
(* none                                                                    *)
FirstWhere(s, T) ==
    LET hits == {i \in 1..Len(s) : s[i] \in T}
    IN  IF hits = {} THEN Len(s) + 1
        ELSE CHOOSE i \in hits : \A j \in hits : i <= j

Surrogates == 55296..57343

(* every high surrogate is followed by a low one, every low one preceded   *)
(* by a high one                                                           *)
SurrogatesValid(us) ==
    \A i \in 1..Len(us) :
        /\ IsHighSurrogate(us[i]) => (i < Len(us) /\ IsLowSurrogate(us[i + 1]))
        /\ IsLowSurrogate(us[i]) => (i > 1 /\ IsHighSurrogate(us[i - 1]))

(* the code points of valid code units: the units up to the first          *)
(* surrogate pair as they are, then the pair's code point, then the rest   *)
RECURSIVE CodePoints(_)
CodePoints(us) ==
    LET p == FirstWhere(us, Surrogates)
    IN  IF p > Len(us) THEN us
        ELSE SubSeq(us, 1, p - 1)
                 \o <<65536 + (us[p] - 55296) * 1024 + (us[p + 1] - 56320)>>
                 \o CodePoints(Drop(us, p + 1))

Utf16Body(bs, little) ==
    IF Len(bs) % 2 = 1 \/ ~SurrogatesValid(CodeUnits(bs, little))
    THEN UnicodeDecodeError
    ELSE PyStr(CodePoints(CodeUnits(bs, little)))

(* codecs 'utf-16' (encodings/utf_16.py, IncrementalDecoder): a BOM picks  *)
(* the byte order and is dropped; without a BOM the bytes are decoded in   *)
(* native order, and once two or more bytes were consumed that way the     *)
(* decoder raises UnicodeError("UTF-16 stream does not start with BOM").   *)
DecodeUtf16(bs) ==
    IF Len(bs) >= 2 /\ bs[1] = 255 /\ bs[2] = 254 THEN Utf16Body(Drop(bs, 2), TRUE)
    ELSE IF Len(bs) >= 2 /\ bs[1] = 254 /\ bs[2] = 255 THEN Utf16Body(Drop(bs, 2), FALSE)
    ELSE IF Utf16Body(bs, TRUE) = UnicodeDecodeError THEN UnicodeDecodeError
    ELSE IF Len(bs) >= 2 THEN UnicodeError
    ELSE PyStr(<<>>)

(* codecs 'shift-jis': the double-byte codes over the bytes of the model   *)
(* that JIS X 0208 assigns, with their code points.                        *)
SjisDouble ==
    (<<129, 65>> :> 12289) @@ (<<129, 129>> :> 65309) @@ (<<129, 220>> :> 8978) @@
    (<<129, 227>> :> 8730) @@ (<<227, 65>> :> 32028) @@ (<<227, 129>> :> 32314) @@
    (<<227, 220>> :> 32866) @@ (<<227, 227>> :> 32893)

IsSjisSingle(b) == b < 128 \/ (b >= 161 /\ b <= 223)
NotSjisSingle == (128..160) \cup (224..255)
SjisSingle(b) == IF b < 128 THEN b ELSE 65377 + (b - 161)

(* From a character boundary: the single-byte characters up to the first   *)
(* other byte, which must then lead an assigned double-byte code.          *)
RECURSIVE SjisValid(_)
SjisValid(bs) ==
    LET p == FirstWhere(bs, NotSjisSingle)
    IN  IF p > Len(bs) THEN TRUE
        ELSE /\ p < Len(bs)
             /\ <<bs[p], bs[p + 1]>> \in DOMAIN SjisDouble
             /\ SjisValid(Drop(bs, p + 1))

RECURSIVE SjisChars(_)
SjisChars(bs) ==
    LET p == FirstWhere(bs, NotSjisSingle)
        singles == [i \in 1..(p - 1) |-> SjisSingle(bs[i])]
    IN  IF p > Len(bs) THEN singles
        ELSE singles \o <<SjisDouble[<<bs[p], bs[p + 1]>>]>> \o SjisChars(Drop(bs, p + 1))

DecodeShiftJis(bs) ==
    IF SjisValid(bs) THEN PyStr(SjisChars(bs)) ELSE UnicodeDecodeError

(* codecs 'utf-8', for sequences of one to three bytes: the length of the  *)
(* well-formed sequence at the head of bs (0 if there is none), and the    *)
(* number of bytes an error at the head of bs covers.                      *)
IsCont(b) == b >= 128 /\ b <= 191
Utf8Need(b) ==
    IF b < 128 THEN 1
    ELSE IF b >= 194 /\ b <= 223 THEN 2
    ELSE IF b >= 224 /\ b <= 239 THEN 3
    ELSE 0

SecondOk(lead, b) ==
    /\ IsCont(b)
    /\ lead = 224 => b >= 160
    /\ lead = 237 => b <= 159

Utf8HeadLen(bs) ==
    LET n == Utf8Need(bs[1])
    IN  IF n = 1 THEN 1
        ELSE IF n = 2 /\ Len(bs) >= 2 /\ IsCont(bs[2]) THEN 2
        ELSE IF n = 3 /\ Len(bs) >= 3 /\ SecondOk(bs[1], bs[2]) /\ IsCont(bs[3]) THEN 3
        ELSE 0

Utf8ErrorLen(bs) ==
    IF Utf8Need(bs[1]) = 3 /\ Len(bs) >= 2 /\ SecondOk(bs[1], bs[2]) THEN 2 ELSE 1

Utf8Char(bs, n) ==
    CASE n = 1 -> bs[1]
      [] n = 2 -> (bs[1] - 192) * 64 + (bs[2] - 128)
      [] n = 3 -> (bs[1] - 224) * 4096 + (bs[2] - 128) * 64 + (bs[3] - 128)

NotAscii == 128..255

(* From a character boundary: the ASCII bytes up to the first other byte,  *)
(* which must then start a well-formed sequence.                           *)
RECURSIVE Utf8Valid(_)
Utf8Valid(bs) ==
    LET p == FirstWhere(bs, NotAscii)
        rest == Drop(bs, p - 1)
    IN  IF p > Len(bs) THEN TRUE
        ELSE Utf8HeadLen(rest) # 0 /\ Utf8Valid(Drop(rest, Utf8HeadLen(rest)))

(* the code points of the well-formed sequences, the rest dropped *)
RECURSIVE Utf8Chars(_)
Utf8Chars(bs) ==
    LET p == FirstWhere(bs, NotAscii)
        rest == Drop(bs, p - 1)
    IN  IF p > Len(bs) THEN bs
        ELSE IF Utf8HeadLen(rest) # 0
             THEN SubSeq(bs, 1, p - 1) \o <<Utf8Char(rest, Utf8HeadLen(rest))>>
                      \o Utf8Chars(Drop(rest, Utf8HeadLen(rest)))
        ELSE SubSeq(bs, 1, p - 1) \o Utf8Chars(Drop(rest, Utf8ErrorLen(rest)))

DecodeUtf8(bs) ==
    IF Utf8Valid(bs) THEN PyStr(Utf8Chars(bs)) ELSE UnicodeDecodeError

(* encoding='utf-8', errors='ignore' *)
DecodeUtf8Ignore(bs) == PyStr(Utf8Chars(bs))

Decode(encoding, bs) ==
    CASE encoding = "utf-16" -> DecodeUtf16(bs)
      [] encoding = "shift-jis" -> DecodeShiftJis(bs)
      [] encoding = "utf-8" -> DecodeUtf8(bs)

----------------------------------------------------------------------------
(* The metadata loop of parse_dtx_metadata, repeated inline in             *)
(* get_dtx_metadata.  A chart file is ASCII text followed by a binary      *)
(* tail.                                                                   *)
NL == <<"\n">>

(* parse_dtx_metadata's read: Shift-JIS, and on UnicodeDecodeError UTF-8   *)
(* with errors='ignore'.                                                   *)
ReadChart(bs) ==
    IF DecodeShiftJis(bs) = UnicodeDecodeError THEN DecodeUtf8Ignore(bs)
    ELSE DecodeShiftJis(bs)

(* the iteration with an unparseable number leaving its field untouched *)
MetaStepSkipInvalid(metadata, rawline) ==
    LET line       == Strip(rawline)
        title      == parse_dtx_line(line, TITLE)
        artist     == parse_dtx_line(line, ARTIST)
        bpm_str    == parse_dtx_line(line, BPM)
        dlevel_str == parse_dtx_line(line, DLEVEL)
    IN  IF title # None THEN Put(metadata, "title", title)
        ELSE IF artist # None THEN Put(metadata, "artist", artist)
        ELSE IF bpm_str # None
             THEN IF ParseFloat(bpm_str) = ValueError THEN metadata
                  ELSE Put(metadata, "bpm", ParseFloat(bpm_str))
        ELSE IF dlevel_str # None
             THEN IF ParseInt(dlevel_str) = ValueError THEN metadata
                  ELSE Put(metadata, "level", ParseInt(dlevel_str))
        ELSE metadata

(* the iteration with a field that is already set left alone *)
MetaStepFirstWins(metadata, rawline) ==
    LET line       == Strip(rawline)
        title      == parse_dtx_line(line, TITLE)
        artist     == parse_dtx_line(line, ARTIST)
        bpm_str    == parse_dtx_line(line, BPM)
        dlevel_str == parse_dtx_line(line, DLEVEL)
        Keep(k, v) == IF k \in DOMAIN metadata THEN metadata ELSE Put(metadata, k, v)
    IN  IF title # None THEN Keep("title", title)
        ELSE IF artist # None THEN Keep("artist", artist)
        ELSE IF bpm_str # None
             THEN Keep("bpm", IF ParseFloat(bpm_str) = ValueError THEN None
                              ELSE ParseFloat(bpm_str))
        ELSE IF dlevel_str # None
             THEN Keep("level", IF ParseInt(dlevel_str) = ValueError THEN None
                                ELSE ParseInt(dlevel_str))
        ELSE metadata

(* One iteration of `for line in content.split('\n')`. *)
MetaStep(metadata, rawline) ==
    LET line       == Strip(rawline)
        title      == parse_dtx_line(line, TITLE)
        artist     == parse_dtx_line(line, ARTIST)
        bpm_str    == parse_dtx_line(line, BPM)
        dlevel_str == parse_dtx_line(line, DLEVEL)
    IN  IF title # None THEN Put(metadata, "title", title)
        ELSE IF artist # None THEN Put(metadata, "artist", artist)
        ELSE IF bpm_str # None
             THEN Put(metadata, "bpm",
                      IF ParseFloat(bpm_str) = ValueError THEN None
                      ELSE ParseFloat(bpm_str))
        ELSE IF dlevel_str # None
             THEN Put(metadata, "level",
                      IF ParseInt(dlevel_str) = ValueError THEN None
                      ELSE ParseInt(dlevel_str))
        ELSE metadata

(* The whole loop: the metadata after every line of content. *)
RECURSIVE MetaLoop(_, _)
MetaLoop(metadata, lines) ==
    IF lines = <<>> THEN metadata
    ELSE MetaLoop(MetaStep(metadata, Head(lines)), Tail(lines))

ParseMetadataText(content) == MetaLoop(EmptyDict, Split(content, NL))

(* parse_dtx_metadata(dtx_path) on a file with these bytes *)
parse_dtx_metadata(bs) == ParseMetadataText(Text(ReadChart(bs)[2]))

MetaLineCatalog == {
    <<"#", "T", "I", "T", "L", "E", ":", " ", "x">>,
    <<"#", "A", "R", "T", "I", "S", "T", " ", "a">>,
    <<"#", "B", "P", "M", ":", " ", "1", "2", "0">>,
    <<" ", "#", "B", "P", "M", "1", ".", "5", "0", "\t">>,
    <<"#", "B", "P", "M", ":", " ", "a", "b", "c">>,
    <<"#", "B", "P", "M", "0", "1", ":", " ", "9", "0">>,
    <<"#", "D", "L", "E", "V", "E", "L", ":", " ", "3", "0">>,
    <<"#", "D", "L", "E", "V", "E", "L", " ", "4", ".", "5">>,
    <<";", " ", "#", "B", "P", "M", " ", "7">>
}

MetaContents ==
    {Join(ls) : ls \in SeqsUpTo(MetaLineCatalog, MaxMetaLines)}

DotDtx == <<".", "d", "t", "x">>
MetaFilenames == {<<"a">> \o DotDtx, <<"b">> \o DotDtx, <<"a", ".", "t", "x", "t">>}
(* the files of DTX_FILES_DIR that exist in the model *)
MetaExisting == {<<"a">> \o DotDtx}
(* binary tails: none, and a byte that is invalid in Shift-JIS and UTF-8 *)
BinaryTails == {<<>>, <<255>>}

MetaIdle ==
    /\ md_handler = "none"
    /\ md_content = <<>>
    /\ md_lines = <<>>
    /\ md_i = 0
    /\ md_metadata = EmptyDict
    /\ md_pc = "idle"

(* parse_dtx_metadata(dtx_path) up to the loop: the file is read as        *)
(* Shift-JIS, and as UTF-8 with errors='ignore' when that fails.           *)
ParseMetadataOpen ==
    /\ md_pc = "idle"
    /\ \E text \in MetaContents, tail \in BinaryTails :
           /\ md_handler' = "parse_dtx_metadata"
           /\ md_content' = Text(ReadChart(AsciiBytes(text) \o tail)[2])
           /\ md_lines' = Split(md_content', NL)
           /\ md_i' = 1
           /\ md_metadata' = EmptyDict
           /\ md_pc' = "loop"
           /\ UNCHANGED notMeta

(* get_dtx_metadata(filename) up to the loop: 400 for a bad extension, 404 *)
(* for a missing file, 500 when the strict Shift-JIS read raises.          *)
GetMetadataOpen ==
    /\ md_pc = "idle"
    /\ \E filename \in MetaFilenames, text \in MetaContents, tail \in BinaryTails :
         LET r == DecodeShiftJis(AsciiBytes(text) \o tail) IN
           /\ md_handler' = "get_dtx_metadata"
           /\ md_i' = 1
           /\ md_metadata' = EmptyDict
           /\ IF ~EndsWith(filename, DotDtx)
              THEN md_pc' = "http400" /\ md_content' = <<>> /\ md_lines' = <<>>
              ELSE IF filename \notin MetaExisting
              THEN md_pc' = "http404" /\ md_content' = <<>> /\ md_lines' = <<>>
              ELSE IF IsException(r)
              THEN md_pc' = "http500" /\ md_content' = <<>> /\ md_lines' = <<>>
              ELSE /\ md_pc' = "loop"
                   /\ md_content' = Text(r[2])
                   /\ md_lines' = Split(md_content', NL)
           /\ UNCHANGED notMeta

(* one iteration of the loop over the lines *)
MetaLine ==
    /\ md_pc = "loop"
    /\ md_i <= Len(md_lines)
    /\ md_metadata' = MetaStep(md_metadata, md_lines[md_i])
    /\ md_i' = md_i + 1
    /\ UNCHANGED <<md_handler, md_content, md_lines, md_pc>>
    /\ UNCHANGED notMeta

(* the loop is exhausted: return metadata / the JSON response *)
MetaReturn ==
    /\ md_pc = "loop"
    /\ md_i > Len(md_lines)
    /\ md_pc' = "done"
    /\ UNCHANGED <<md_handler, md_content, md_lines, md_i, md_metadata>>
    /\ UNCHANGED notMeta

MetaNext == ParseMetadataOpen \/ GetMetadataOpen \/ MetaLine \/ MetaReturn

(* The lines among the first n of lines that are directives of key. *)
Matching(lines, n, key) ==
    {j \in 1..n : StartsWith(Strip(lines[j]), Hash \o key)}

Last(S) == CHOOSE j \in S : \A k \in S : k <= j

Processed == md_i - 1

(* C5: a numeric directive never raises and has three outcomes: the key    *)
(* bpm (level) is absent iff no line matches #BPM (#DLEVEL); it is present *)
(* and None when the deciding (last) matching line's value is no float     *)
(* (int) literal; otherwise it is present with the parsed number.          *)
NumericOutcome(field, key, isfloat) ==
    LET m == Matching(md_lines, Processed, key)
        text == parse_dtx_line(md_lines[Last(m)], key)
        parsed == IF isfloat THEN ParseFloat(text) ELSE ParseInt(text)
    IN  /\ (field \in DOMAIN md_metadata) <=> (m # {})
        /\ m # {} =>
              /\ md_metadata[field] # ValueError
              /\ (parsed = ValueError) => md_metadata[field] = None
              /\ (parsed # ValueError) =>
                    /\ md_metadata[field] = parsed
                    /\ md_metadata[field][1] = (IF isfloat THEN "float" ELSE "int")

NumericThreeOutcomes ==
    md_pc \in {"loop", "done"} =>
        /\ NumericOutcome("bpm", BPM, TRUE)
        /\ NumericOutcome("level", DLEVEL, FALSE)

(* "#BPM: abc" gives bpm: None, and no #DLEVEL line leaves level absent;   *)
(* in the same file "#DLEVEL 4.5" gives level: None beside a parsed bpm.   *)
NumericThreeOutcomesWitness ==
    /\ md_pc = "done"
    /\ md_handler = "get_dtx_metadata"
    /\ md_content = <<"#", "B", "P", "M", ":", " ", "a", "b", "c">>
    /\ "bpm" \in DOMAIN md_metadata
    /\ md_metadata["bpm"] = None
    /\ "level" \notin DOMAIN md_metadata

(* C8: for each of title, artist, bpm and level the value is decided by    *)
(* the last line matching its key (a later unparseable #BPM/#DLEVEL line   *)
(* replaces an earlier number by None), and one line updates at most one   *)
(* field.                                                                  *)
FieldKey ==
    ("title" :> TITLE) @@ ("artist" :> ARTIST) @@ ("bpm" :> BPM) @@ ("level" :> DLEVEL)
Fields == DOMAIN FieldKey

Converted(field, text) ==
    CASE field = "bpm" ->
           (IF ParseFloat(text) = ValueError THEN None ELSE ParseFloat(text))
      [] field = "level" ->
           (IF ParseInt(text) = ValueError THEN None ELSE ParseInt(text))
      [] OTHER -> text

LastMatchDecides ==
    md_pc \in {"loop", "done"} =>
        \A f \in Fields :
            LET m == Matching(md_lines, Processed, FieldKey[f])
            IN  IF m = {} THEN f \notin DOMAIN md_metadata
                ELSE /\ f \in DOMAIN md_metadata
                     /\ md_metadata[f] =
                          Converted(f, parse_dtx_line(md_lines[Last(m)], FieldKey[f]))

Touched(f) ==
    \/ (f \in DOMAIN md_metadata) # (f \in DOMAIN md_metadata')
    \/ /\ f \in DOMAIN md_metadata
       /\ f \in DOMAIN md_metadata'
       /\ md_metadata[f] # md_metadata'[f]

OneFieldPerLine ==
    (md_pc = "loop" /\ md_pc' = "loop") =>
        /\ Cardinality({f \in Fields : Touched(f)}) <= 1
        /\ DOMAIN md_metadata \subseteq DOMAIN md_metadata'
        /\ \A f \in DOMAIN md_metadata' \ DOMAIN md_metadata :
              StartsWith(Strip(md_lines[md_i]), Hash \o FieldKey[f])

LastLineWins == []LastMatchDecides /\ [][OneFieldPerLine]_vars

(* "#BPM: 120" followed by "#BPM: abc": the number is replaced by None.    *)
LastLineWinsWitness ==
    /\ md_pc = "done"
    /\ md_lines = << <<"#", "B", "P", "M", ":", " ", "1", "2", "0">>,
                     <<"#", "B", "P", "M", ":", " ", "a", "b", "c">> >>
    /\ md_metadata["bpm"] = None

----------------------------------------------------------------------------
(* The line loop of parse_set_def.  song_info['difficulties'] is a dict of *)
(* dicts; order is the insertion order of its keys, which is the order in  *)
(* which .items() yields them.                                             *)
LABEL == <<"L", "A", "B", "E", "L">>
FILE == <<"F", "I", "L", "E">>
HashL == <<"#", "L">>

EmptySongInfo == [title |-> None, difficulties |-> EmptyDict, order |-> <<>>]

(* difficulties[k] = entry: a new key goes to the end, a key already there *)
(* keeps its place.                                                        *)
SetSlot(info, k, entry) ==
    [info EXCEPT !.difficulties = Put(@, k, entry),
                 !.order = IF k \in DOMAIN info.difficulties THEN @ ELSE Append(@, k)]

(* One iteration of `for line in content.split('\n')`.  line[2] exists on  *)
(* both branches: a line that starts with "#L" and contains LABEL or FILE  *)
(* has at least six characters.                                            *)
SetDefStep(info, rawline) ==
    LET line      == Strip(rawline)
        title     == parse_dtx_line(line, TITLE)
        level_num == line[3]
        label     == Strip(Split(line, LABEL)[2])
        filename  == Strip(Split(line, FILE)[2])
    IN  IF title # None THEN [info EXCEPT !.title = title]
        ELSE IF StartsWith(line, HashL) /\ Contains(line, LABEL)
             THEN SetSlot(info, level_num, "label" :> label)
        ELSE IF StartsWith(line, HashL) /\ Contains(line, FILE)
             THEN IF level_num \in DOMAIN info.difficulties
                  THEN SetSlot(info, level_num,
                               Put(info.difficulties[level_num], "file", filename))
                  ELSE SetSlot(info, level_num, "file" :> filename)
        ELSE info

(* The whole loop. *)
RECURSIVE SetDefLoop(_, _)
SetDefLoop(info, lines) ==
    IF lines = <<>> THEN info
    ELSE SetDefLoop(SetDefStep(info, Head(lines)), Tail(lines))

ParseSetDefText(content) == SetDefLoop(EmptySongInfo, Split(content, NL))

(* The lines "#L<k>LABEL <a>" and "#L<k>FILE <f>". *)
LabelLine(k, a) == HashL \o <<k>> \o LABEL \o <<" ">> \o a
FileLine(k, f) == HashL \o <<k>> \o FILE \o <<" ">> \o f

BASIC == <<"B", "A", "S", "I", "C">>
BasDtx == <<"b", "a", "s">> \o DotDtx
MyLabelX == <<"M", "Y", " ", "L", "A", "B", "E", "L", " ", "X">>
MyFileDtx == <<"M", "Y", "F", "I", "L", "E">> \o DotDtx

SetLineCatalog == {
    <<"#", "T", "I", "T", "L", "E", ":", " ", "F", "o", "o">>,
    LabelLine("1", BASIC),
    FileLine("1", BasDtx),
    LabelLine("2", MyLabelX),
    FileLine("2", MyFileDtx),
    <<" ", "#", "L", "3", "L", "A", "B", "E", "L", "E", "X", "T", " ">>,
    <<";", " ", "s", "e", "t">>
}

SetDefContents ==
    {Join(ls) : ls \in SeqsUpTo(SetLineCatalog, MaxSetLines)}

SetIdle ==
    /\ sd_content = <<>>
    /\ sd_lines = <<>>
    /\ sd_i = 0
    /\ song_info = EmptySongInfo
    /\ sd_pc = "idle"

(* parse_set_def after the read: song_info is initialised *)
SetDefOpen ==
    /\ sd_pc = "idle"
    /\ \E content \in SetDefContents :
           /\ sd_content' = content
           /\ sd_lines' = Split(content, NL)
           /\ sd_i' = 1
           /\ song_info' = EmptySongInfo
           /\ sd_pc' = "loop"
           /\ UNCHANGED notSet

(* one iteration of the loop over the lines *)
SetDefLine ==
    /\ sd_pc = "loop"
    /\ sd_i <= Len(sd_lines)
    /\ song_info' = SetDefStep(song_info, sd_lines[sd_i])
    /\ sd_i' = sd_i + 1
    /\ UNCHANGED <<sd_content, sd_lines, sd_pc>>
    /\ UNCHANGED notSet

(* return song_info *)
SetDefReturn ==
    /\ sd_pc = "loop"
    /\ sd_i > Len(sd_lines)
    /\ sd_pc' = "done"
    /\ UNCHANGED <<sd_content, sd_lines, sd_i, song_info>>
    /\ UNCHANGED notSet

SetNext == SetDefOpen \/ SetDefLine \/ SetDefReturn

InLines(line, lines) == \E j \in 1..Len(lines) : lines[j] = line

(* the lines that are directives of slot k *)
SlotLines(lines, k) ==
    {j \in 1..Len(lines) : StartsWith(Strip(lines[j]), HashL \o <<k>>)}

(* C1: a SET.def with the line "#L<k>LABEL a" and the line "#L<k>FILE f",  *)
(* in either order, yields difficulties[k] = {label: a, file: f}; a LABEL  *)
(* line after the FILE line of its slot keeps the recorded file.           *)
SlotOrderIndependent ==
    sd_pc = "done" =>
        \A k \in {"1"}, a \in {BASIC}, f \in {BasDtx} :
            ( /\ InLines(LabelLine(k, a), sd_lines)
              /\ InLines(FileLine(k, f), sd_lines)
              /\ Cardinality(SlotLines(sd_lines, k)) = 2 )
            => /\ k \in DOMAIN song_info.difficulties
               /\ song_info.difficulties[k] = ("label" :> a) @@ ("file" :> f)

(* C7: for a line that starts with "#L" and contains LABEL the recorded    *)
(* label is everything after the first LABEL, trimmed, also when LABEL     *)
(* occurs again in it; the same for a FILE line and FILE.                  *)
AfterFirst(line, word) == Strip(Drop(line, Find(line, word) + Len(word) - 1))

RemainderAfterFirstOccurrence ==
    (sd_pc = "loop" /\ sd_i > 1) =>
        LET line == Strip(sd_lines[sd_i - 1])
        IN  /\ (StartsWith(line, HashL) /\ Contains(line, LABEL)) =>
                  song_info.difficulties[line[3]]["label"] = AfterFirst(line, LABEL)
            /\ (StartsWith(line, HashL) /\ ~Contains(line, LABEL)
                   /\ Contains(line, FILE)) =>
                  song_info.difficulties[line[3]]["file"] = AfterFirst(line, FILE)

----------------------------------------------------------------------------
(* The read loop of parse_set_def. *)
encodings_to_try == <<"utf-16", "shift-jis", "utf-8">>

FileBytes == SeqsUpTo(ByteAlphabet, MaxBytes)

ReadIdle ==
    /\ rd_bytes = <<>>
    /\ rd_idx = 0
    /\ rd_tried = <<>>
    /\ rd_content = None
    /\ rd_pc = "idle"

(* content = None; the loop over encodings_to_try starts.  rd_tried logs   *)
(* the encodings the file was opened with.                                 *)
ReadStart ==
    /\ rd_pc = "idle"
    /\ \E bs \in FileBytes :
           /\ rd_bytes' = bs
           /\ rd_idx' = 1
           /\ rd_tried' = <<>>
           /\ rd_content' = None
           /\ rd_pc' = "loop"
           /\ UNCHANGED notRead

(* One iteration of the loop: open and read with the next encoding; break  *)
(* on success, continue on UnicodeDecodeError.  Any other exception is not *)
(* caught and leaves parse_set_def.                                        *)
TryEncoding ==
    /\ rd_pc = "loop"
    /\ rd_idx <= Len(encodings_to_try)
    /\ LET r == Decode(encodings_to_try[rd_idx], rd_bytes)
       IN  /\ rd_tried' = Append(rd_tried, encodings_to_try[rd_idx])
           /\ IF r = UnicodeDecodeError
              THEN rd_idx' = rd_idx + 1 /\ UNCHANGED <<rd_content, rd_pc>>
              ELSE IF IsException(r)
              THEN rd_pc' = "raised" /\ UNCHANGED <<rd_content, rd_idx>>
              ELSE rd_content' = r /\ rd_pc' = "after_loop" /\ UNCHANGED rd_idx
    /\ UNCHANGED rd_bytes
    /\ UNCHANGED notRead

(* the loop ran out of encodings *)
EncodingsExhausted ==
    /\ rd_pc = "loop"
    /\ rd_idx > Len(encodings_to_try)
    /\ rd_pc' = "after_loop"
    /\ UNCHANGED <<rd_bytes, rd_idx, rd_tried, rd_content>>
    /\ UNCHANGED notRead

(* if content is None: the read with encoding='utf-8', errors='ignore' *)
FinalFallback ==
    /\ rd_pc = "after_loop"
    /\ rd_content' = IF rd_content = None THEN DecodeUtf8Ignore(rd_bytes) ELSE rd_content
    /\ rd_pc' = "read_done"
    /\ UNCHANGED <<rd_bytes, rd_idx, rd_tried>>
    /\ UNCHANGED notRead

ReadNext == ReadStart \/ TryEncoding \/ EncodingsExhausted \/ FinalFallback

(* C9: the read tries UTF-16, Shift-JIS, UTF-8 in that order, takes the    *)
(* first candidate that decodes without error and tries none after it; if  *)
(* all three fail it decodes as UTF-8 dropping invalid bytes; so every     *)
(* read ends with a content value and never with a decode error.           *)
CandidateOrder == <<"utf-16", "shift-jis", "utf-8">>
Succeeds(e, bs) == ~IsException(Decode(e, bs))
FirstSuccess(bs) ==
    LET ok == {i \in 1..3 : Succeeds(CandidateOrder[i], bs)}
    IN  IF ok = {} THEN 0 ELSE CHOOSE i \in ok : \A j \in ok : i <= j

ReadAlwaysEndsWithContent ==
    /\ rd_pc # "raised"
    /\ \A i \in 1..Len(rd_tried) : rd_tried[i] = CandidateOrder[i]
    /\ rd_pc = "read_done" =>
          LET n == FirstSuccess(rd_bytes)
          IN  /\ rd_content # None
              /\ n # 0 => /\ rd_content = Decode(CandidateOrder[n], rd_bytes)
                           /\ Len(rd_tried) = n
              /\ n = 0 => /\ rd_content = DecodeUtf8Ignore(rd_bytes)
                           /\ Len(rd_tried) = 3

----------------------------------------------------------------------------
(* parse_song_folder(song_dir).  A song folder is its name, its SET.def    *)
(* (whether it exists, and its bytes) and its other entries by name: a     *)
(* chart file with its bytes, or a directory.                              *)

(* the whole read of parse_set_def: a str, or the exception that leaves it *)
RECURSIVE ReadFrom(_, _)
ReadFrom(bs, i) ==
    IF i > Len(encodings_to_try) THEN DecodeUtf8Ignore(bs)
    ELSE IF Decode(encodings_to_try[i], bs) = UnicodeDecodeError THEN ReadFrom(bs, i + 1)
    ELSE Decode(encodings_to_try[i], bs)

ReadSetDef(bs) == ReadFrom(bs, 1)

Return(v) == [kind |-> "return", value |-> v]
ReturnNone == [kind |-> "return_none", value |-> None]
Raise(e) == [kind |-> "raise", value |-> e]

(* parse_set_def(set_def_path) on a file with these bytes *)
parse_set_def(bs) ==
    IF IsException(ReadSetDef(bs)) THEN Raise(ReadSetDef(bs))
    ELSE Return(ParseSetDefText(Text(ReadSetDef(bs)[2])))

difficulty_mapping ==
    (<<"B", "A", "S", "I", "C">> :> <<"e", "a", "s", "y">>) @@
    (<<"A", "D", "V", "A", "N", "C", "E", "D">> :> <<"m", "e", "d", "i", "u", "m">>) @@
    (<<"E", "X", "T", "R", "E", "M", "E">> :> <<"h", "a", "r", "d">>) @@
    (<<"M", "A", "S", "T", "E", "R">> :> <<"e", "x", "p", "e", "r", "t">>) @@
    (<<"R", "E", "A", "L">> :> <<"e", "x", "p", "e", "r", "t">>)

DefaultLevel == 50

(* (song_dir / name).exists(): joining the empty name gives song_dir *)
PathExists(folder, name) == name = <<>> \/ name \in DOMAIN folder.files
PathIsDir(folder, name) == name = <<>> \/ folder.files[name].kind = "dir"

InitialSongData(folder, info) ==
    [song_id |-> folder.name,
     title   |-> IF Falsy(info.title) THEN Title(ReplaceChar(folder.name, "_", " "))
                 ELSE info.title,
     artist  |-> None,
     bpm     |-> None,
     charts  |-> <<>>]

ChartEntry(diff_info, dtx_metadata, size) ==
    LET difficulty_label == Upper(diff_info["label"])
    IN  [difficulty       |-> Get(difficulty_mapping, difficulty_label,
                                  Lower(difficulty_label)),
         difficulty_label |-> diff_info["label"],
         level            |-> Get(dtx_metadata, "level", PyInt(DefaultLevel)),
         filename         |-> diff_info["file"],
         size             |-> size]

(* the iteration without the dtx_path.exists() test: open() raises on a    *)
(* missing file                                                            *)
SlotStepNoExistsTest(folder, data, diff_info) ==
    IF ~("file" \in DOMAIN diff_info /\ "label" \in DOMAIN diff_info) THEN Return(data)
    ELSE IF ~PathExists(folder, diff_info["file"]) THEN Raise(<<"FileNotFoundError">>)
    ELSE IF PathIsDir(folder, diff_info["file"]) THEN Raise(<<"IsADirectoryError">>)
    ELSE LET bytes        == folder.files[diff_info["file"]].bytes
             dtx_metadata == parse_dtx_metadata(bytes)
             artist       == Get(dtx_metadata, "artist", None)
             bpm          == Get(dtx_metadata, "bpm", None)
         IN  Return([data EXCEPT
                 !.artist = IF Falsy(@) /\ ~Falsy(artist) THEN artist ELSE @,
                 !.bpm    = IF Falsy(@) /\ ~Falsy(bpm) THEN bpm ELSE @,
                 !.charts = Append(@, ChartEntry(diff_info, dtx_metadata, Len(bytes)))])

(* One iteration of `for level_num, diff_info in ...items()`: the song     *)
(* data after it, or the exception open() raises on a directory.           *)
SlotStep(folder, data, diff_info) ==
    IF ~("file" \in DOMAIN diff_info /\ "label" \in DOMAIN diff_info) THEN Return(data)
    ELSE IF ~PathExists(folder, diff_info["file"]) THEN Return(data)
    ELSE IF PathIsDir(folder, diff_info["file"]) THEN Raise(<<"IsADirectoryError">>)
    ELSE LET bytes        == folder.files[diff_info["file"]].bytes
             dtx_metadata == parse_dtx_metadata(bytes)
             artist       == Get(dtx_metadata, "artist", None)
             bpm          == Get(dtx_metadata, "bpm", None)
         IN  Return([data EXCEPT
                 !.artist = IF Falsy(@) /\ ~Falsy(artist) THEN artist ELSE @,
                 !.bpm    = IF Falsy(@) /\ ~Falsy(bpm) THEN bpm ELSE @,
                 !.charts = Append(@, ChartEntry(diff_info, dtx_metadata, Len(bytes)))])

(* the whole loop over the slots, from the k-th in insertion order *)
RECURSIVE SlotLoop(_, _, _, _)
SlotLoop(folder, info, data, k) ==
    IF k > Len(info.order) THEN Return(data)
    ELSE LET r == SlotStep(folder, data, info.difficulties[info.order[k]])
         IN  IF r.kind = "raise" THEN r ELSE SlotLoop(folder, info, r.value, k + 1)

(* parse_song_folder(song_dir) as a whole *)
parse_song_folder(folder) ==
    IF ~folder.set_def.exists THEN ReturnNone
    ELSE LET r == parse_set_def(folder.set_def.bytes)
         IN  IF r.kind = "raise" THEN r
             ELSE SlotLoop(folder, r.value, InitialSongData(folder, r.value), 1)

(* The song folders of the model. *)
ChartA == <<"a", ".", "d", "t", "x">>
ChartB == <<"b", ".", "d", "t", "x">>
ChartC == <<"c", ".", "d", "t", "x">>

SetDefTexts == {
    Join(<<<<"#", "T", "I", "T", "L", "E", ":", " ", "F", "o", "o">>, LabelLine("1", BASIC), FileLine("1", ChartA),
           LabelLine("2", <<"R", "e", "a", "l">>), FileLine("2", ChartB),
           LabelLine("3", <<"E", "x", "t">>), FileLine("3", ChartC)>>),
    Join(<<FileLine("2", ChartB), LabelLine("1", BASIC), LabelLine("2", <<"M", "A", "S", "T", "E", "R">>),
           FileLine("3", ChartC), FileLine("1", ChartA),
           LabelLine("4", <<"E", "x", "t", "r", "e", "m", "e">>), FileLine("4", ChartB)>>),
    Join(<<FileLine("1", ChartA), LabelLine("1", BASIC),
           LabelLine("2", <<"A", "d", "v", "a", "n", "c", "e", "d">>), FileLine("2", ChartB)>>)
}

(* SET.def as ASCII bytes, or as UTF-16 little-endian with a BOM *)
Utf16Bytes(text) ==
    <<255, 254>> \o [i \in 1..(2 * Len(text)) |->
                        IF i % 2 = 1 THEN Ord[text[(i + 1) \div 2]] ELSE 0]

SetDefFiles ==
    {[exists |-> FALSE, bytes |-> <<>>]} \cup
    {[exists |-> TRUE, bytes |-> AsciiBytes(t \o pad)] :
        t \in SetDefTexts, pad \in {<<>>, NL}} \cup
    {[exists |-> TRUE, bytes |-> Utf16Bytes(t)] : t \in SetDefTexts}

ChartTexts == {
    Join(<<<<"#", "A", "R", "T", "I", "S", "T", " ", "a">>, <<"#", "B", "P", "M", ":", " ", "1", "2", "0">>, <<"#", "D", "L", "E", "V", "E", "L", ":", " ", "3", "0">>>>),
    Join(<<<<"#", "A", "R", "T", "I", "S", "T", ":", " ", "b">>, <<"#", "B", "P", "M", " ", "1", "5", "0">>>>),
    Join(<<<<"#", "B", "P", "M", ":", " ", "0">>, <<"#", "D", "L", "E", "V", "E", "L", ":", " ", "a", "b", "c">>>>),
    Join(<<<<"#", "A", "R", "T", "I", "S", "T", ":">>, <<"#", "B", "P", "M", ":", " ", "a", "b", "c">>, <<"#", "D", "L", "E", "V", "E", "L", " ", "7">>>>)
}

FileEntries ==
    {[kind |-> "dir", bytes |-> <<>>]} \cup
    {[kind |-> "file", bytes |-> AsciiBytes(t) \o tail] :
        t \in ChartTexts, tail \in {<<>>}}

ChartNames == {ChartA, ChartB, ChartC}

(* every way of having some of the chart names in the folder *)
FolderFiles ==
    UNION {[names -> FileEntries] : names \in SUBSET ChartNames}

FolderNames == {<<"m", "y", "_", "s", "o", "n", "g">>}

SongFolders ==
    {[name |-> n, set_def |-> sd, files |-> fs] :
        n \in FolderNames, sd \in SetDefFiles, fs \in FolderFiles}

NoFolder == [name |-> <<>>, set_def |-> [exists |-> FALSE, bytes |-> <<>>],
             files |-> EmptyDict]
NoSongData == [song_id |-> <<>>, title |-> <<>>, artist |-> None, bpm |-> None,
               charts |-> <<>>]

SongIdle ==
    /\ sf_folder = NoFolder
    /\ set_info = EmptySongInfo
    /\ sf_k = 0
    /\ song_data = NoSongData
    /\ sf_pc = "idle"

(* parse_song_folder up to the loop: None without SET.def, else            *)
(* parse_set_def and the initial song_data.                                *)
SongEnter ==
    /\ sf_pc = "idle"
    /\ \E folder \in SongFolders :
           LET r == parse_set_def(folder.set_def.bytes) IN
           /\ sf_folder' = folder
           /\ IF ~folder.set_def.exists
              THEN sf_pc' = "returned_none" /\ UNCHANGED <<set_info, sf_k, song_data>>
              ELSE IF r.kind = "raise"
              THEN sf_pc' = "raised" /\ UNCHANGED <<set_info, sf_k, song_data>>
              ELSE /\ set_info' = r.value
                   /\ song_data' = InitialSongData(folder, r.value)
                   /\ sf_k' = 1
                   /\ sf_pc' = "loop"
           /\ UNCHANGED notSong

(* one iteration of the loop over the slots *)
SongSlot ==
    /\ sf_pc = "loop"
    /\ sf_k <= Len(set_info.order)
    /\ LET r == SlotStep(sf_folder, song_data, set_info.difficulties[set_info.order[sf_k]])
       IN  IF r.kind = "raise"
           THEN sf_pc' = "raised" /\ UNCHANGED <<song_data, sf_k>>
           ELSE song_data' = r.value /\ sf_k' = sf_k + 1 /\ UNCHANGED sf_pc
    /\ UNCHANGED <<sf_folder, set_info>>
    /\ UNCHANGED notSong

(* return song_data *)
SongReturn ==
    /\ sf_pc = "loop"
    /\ sf_k > Len(set_info.order)
    /\ sf_pc' = "returned"
    /\ UNCHANGED <<sf_folder, set_info, sf_k, song_data>>
    /\ UNCHANGED notSong

SongNext == SongEnter \/ SongSlot \/ SongReturn

(* The slot the loop visits j-th, and what the claims say of it. *)
SlotInfo(j) == set_info.difficulties[set_info.order[j]]
HasBoth(j) == "file" \in DOMAIN SlotInfo(j) /\ "label" \in DOMAIN SlotInfo(j)
Qualifies(j) == HasBoth(j) /\ PathExists(sf_folder, SlotInfo(j)["file"])
ProcessedSlots == [j \in 1..(sf_k - 1) |-> j]
QualifyingProcessed == SelectSeq(ProcessedSlots, Qualifies)
ChartMetadata(j) == parse_dtx_metadata(sf_folder.files[SlotInfo(j)["file"]].bytes)

(* C2: every ChartEntry has an integer level: the chart's parsed DLEVEL    *)
(* when one parsed, and 50 both when the chart has no #DLEVEL line and     *)
(* when its #DLEVEL value is no integer; a ChartEntry never has a null     *)
(* level.                                                                  *)
ChartLevelIsInteger ==
    \A i \in 1..Len(song_data.charts) :
        LET md    == ChartMetadata(QualifyingProcessed[i])
            level == song_data.charts[i].level
        IN  /\ level # None
            /\ level[1] = "int"
            /\ level = IF "level" \in DOMAIN md /\ md["level"] # None THEN md["level"]
                       ELSE PyInt(50)

(* C3: at every point of the loop each ChartEntry comes from a slot with   *)
(* both a label and a file whose file exists, in the order of the slots;   *)
(* a slot missing either, or whose file does not exist, appends nothing,   *)
(* raises nothing and leaves artist, bpm and charts unchanged.             *)
ChartsComeFromCompleteSlots ==
    /\ Len(song_data.charts) = Len(QualifyingProcessed)
    /\ \A i \in 1..Len(song_data.charts) :
          LET j == QualifyingProcessed[i]
          IN  /\ HasBoth(j)
              /\ PathExists(sf_folder, SlotInfo(j)["file"])
              /\ song_data.charts[i].filename = SlotInfo(j)["file"]
              /\ song_data.charts[i].difficulty_label = SlotInfo(j)["label"]

IncompleteSlotIsSkipped ==
    (sf_pc = "loop" /\ sf_k <= Len(set_info.order) /\ ~Qualifies(sf_k)) =>
        /\ sf_pc' = "loop"
        /\ sf_k' = sf_k + 1
        /\ song_data' = song_data

OnlyCompleteSlotsContribute ==
    []ChartsComeFromCompleteSlots /\ [][IncompleteSlotIsSkipped]_vars

(* a returned song with a chart, after a slot with a label and no file,    *)
(* a slot with a file and no label, and a complete slot whose file is      *)
(* missing were visited                                                    *)
OnlyCompleteSlotsContributeWitness ==
    /\ sf_pc = "returned"
    /\ Len(song_data.charts) = 1
    /\ \E j \in 1..(sf_k - 1) : DOMAIN SlotInfo(j) = {"label"}
    /\ \E j \in 1..(sf_k - 1) : DOMAIN SlotInfo(j) = {"file"}
    /\ \E j \in 1..(sf_k - 1) : HasBoth(j) /\ ~Qualifies(j)

(* C6: artist (bpm) is the value of the first processed chart whose        *)
(* metadata provides an artist (a bpm), is never changed once set, and is  *)
(* null only if no processed chart provides one.  A chart provides an      *)
(* artist when its metadata has a non-empty artist, and a bpm when its     *)
(* metadata has a bpm that is not null.                                    *)
ProvidesArtist(j) ==
    "artist" \in DOMAIN ChartMetadata(j) /\ ChartMetadata(j)["artist"] # <<>>
ProvidesBpm(j) ==
    "bpm" \in DOMAIN ChartMetadata(j) /\ ChartMetadata(j)["bpm"] # None

FirstFoundWins ==
    sf_pc \in {"loop", "returned"} =>
        LET a == SelectSeq(QualifyingProcessed, ProvidesArtist)
            b == SelectSeq(QualifyingProcessed, ProvidesBpm)
        IN  /\ song_data.artist =
                  IF a = <<>> THEN None ELSE ChartMetadata(a[1])["artist"]
            /\ song_data.bpm =
                  IF b = <<>> THEN None ELSE ChartMetadata(b[1])["bpm"]

----------------------------------------------------------------------------
(* GET /dtx/list (list_dtx_files).  An entry of DTX_FILES_DIR is a         *)
(* directory, given as a song folder, or a plain file with its size.       *)
DirEntry(folder) == [name |-> folder.name, is_dir |-> TRUE, folder |-> folder, size |-> 0]
PlainFile(name, size) == [name |-> name, is_dir |-> FALSE, folder |-> NoFolder, size |-> size]

OneChartSetDef ==
    Join(<<<<"#", "T", "I", "T", "L", "E", ":", " ", "O", "n", "e">>, LabelLine("1", BASIC), FileLine("1", ChartA)>>)
TwoChartSetDef ==
    Join(<<LabelLine("1", <<"A", "d", "v">>), FileLine("1", ChartA),
           LabelLine("2", <<"R", "e", "a", "l">>), FileLine("2", ChartB)>>)

PlainChart == [kind |-> "file", bytes |-> AsciiBytes(Join(<<<<"#", "A", "R", "T", "I", "S", "T", " ", "a">>, <<"#", "B", "P", "M", " ", "1", "5", "0">>>>))]
Directory == [kind |-> "dir", bytes |-> <<>>]

ListCatalog == {
    \* a song folder with one chart (SET.def: ASCII, odd length)
    DirEntry([name |-> <<"o", "n", "e">>,
              set_def |-> [exists |-> TRUE, bytes |-> AsciiBytes(OneChartSetDef \o NL)],
              files |-> (ChartA :> PlainChart)]),
    \* a song folder with a UTF-16 SET.def and two charts
    DirEntry([name |-> <<"t", "w", "o">>,
              set_def |-> [exists |-> TRUE, bytes |-> Utf16Bytes(TwoChartSetDef)],
              files |-> (ChartA :> PlainChart) @@ (ChartB :> PlainChart)]),
    \* a directory without SET.def
    DirEntry([name |-> <<"n", "o", "_", "d", "e", "f">>,
              set_def |-> [exists |-> FALSE, bytes |-> <<>>],
              files |-> (ChartA :> PlainChart)]),
    \* a song folder whose second chart is a directory
    DirEntry([name |-> <<"b", "a", "d">>,
              set_def |-> [exists |-> TRUE, bytes |-> Utf16Bytes(TwoChartSetDef)],
              files |-> (ChartA :> PlainChart) @@ (ChartB :> Directory)]),
    \* a song folder whose SET.def parse_set_def cannot read (ASCII, even
    \* length, no BOM: the UTF-16 read raises UnicodeError)
    DirEntry([name |-> <<"e", "v", "e", "n">>,
              set_def |-> [exists |-> TRUE, bytes |-> AsciiBytes(OneChartSetDef)],
              files |-> (ChartA :> PlainChart)]),
    \* loose files
    PlainFile(<<"x", ".", "d", "t", "x">>, 7),
    PlainFile(<<"r", "e", "a", "d", "m", "e", ".", "t", "x", "t">>, 3)
}

(* the listings iterdir() can yield: entries with distinct names, in any   *)
(* order                                                                   *)
Listings ==
    {es \in SeqsUpTo(ListCatalog, MaxEntries) :
        \A i, j \in 1..Len(es) : i # j => es[i].name # es[j].name}

Http200(body) == [status |-> 200, body |-> body]
Http500(detail) == [status |-> 500, body |-> [detail |-> detail]]
NoResponse == [status |-> 0, body |-> [detail |-> <<>>]]

IsDtxName(e) == EndsWith(e.name, DotDtx)
(* DTX_FILES_DIR.glob("*.dtx"), as {"filename", "size"} records *)
GlobDtx(es) ==
    LET hits == SelectSeq(es, IsDtxName)
    IN  [i \in 1..Len(hits) |-> [filename |-> hits[i].name, size |-> hits[i].size]]

ListIdle ==
    /\ ls_entries = <<>>
    /\ ls_i = 0
    /\ songs = <<>>
    /\ ls_response = NoResponse
    /\ ls_pc = "idle"

(* the request arrives: {"songs": []} when DTX_FILES_DIR does not exist,   *)
(* else songs = [] and the loop over iterdir() starts                      *)
ListRequest ==
    /\ ls_pc = "idle"
    /\ \E exists \in BOOLEAN, es \in Listings :
           /\ songs' = <<>>
           /\ IF ~exists
              THEN /\ ls_response' = Http200([songs |-> <<>>])
                   /\ ls_pc' = "responded"
                   /\ UNCHANGED <<ls_entries, ls_i>>
              ELSE /\ ls_entries' = es
                   /\ ls_i' = 1
                   /\ ls_pc' = "iterdir"
                   /\ UNCHANGED ls_response
           /\ UNCHANGED notList

(* the iteration with each song folder's exception caught and the folder  *)
(* left out                                                                *)
ListEntryIsolated ==
    /\ ls_pc = "iterdir"
    /\ ls_i <= Len(ls_entries)
    /\ LET e == ls_entries[ls_i]
           r == parse_song_folder(e.folder)
       IN  /\ songs' = IF e.is_dir /\ e.folder.set_def.exists /\ r.kind = "return"
                       THEN Append(songs, r.value) ELSE songs
           /\ ls_i' = ls_i + 1
           /\ UNCHANGED <<ls_response, ls_pc>>
    /\ UNCHANGED ls_entries
    /\ UNCHANGED notList

(* One iteration of `for song_dir in DTX_FILES_DIR.iterdir()`; an          *)
(* exception of parse_song_folder reaches `except Exception` and becomes   *)
(* the 500 response.                                                       *)
ListEntry ==
    /\ ls_pc = "iterdir"
    /\ ls_i <= Len(ls_entries)
    /\ LET e == ls_entries[ls_i]
           r == parse_song_folder(e.folder)
       IN  IF e.is_dir /\ e.folder.set_def.exists
           THEN IF r.kind = "raise"
                THEN /\ ls_response' = Http500(r.value)
                     /\ ls_pc' = "responded"
                     /\ UNCHANGED <<songs, ls_i>>
                ELSE /\ songs' = IF r.kind = "return" THEN Append(songs, r.value) ELSE songs
                     /\ ls_i' = ls_i + 1
                     /\ UNCHANGED <<ls_response, ls_pc>>
           ELSE /\ ls_i' = ls_i + 1
                /\ UNCHANGED <<songs, ls_response, ls_pc>>
    /\ UNCHANGED ls_entries
    /\ UNCHANGED notList

(* after the loop: the loose *.dtx files and the response *)
ListRespond ==
    /\ ls_pc = "iterdir"
    /\ ls_i > Len(ls_entries)
    /\ ls_response' = Http200([songs |-> songs, individual_files |-> GlobDtx(ls_entries)])
    /\ ls_pc' = "responded"
    /\ UNCHANGED <<ls_entries, ls_i, songs>>
    /\ UNCHANGED notList

ListNext == ListRequest \/ ListEntry \/ ListRespond

(* C10: listing is all-or-nothing: if processing any one song folder       *)
(* raises, the request ends with a 500 response and no song records, also  *)
(* none of the folders processed before the failing one; a directory       *)
(* without SET.def is skipped and causes no error.                         *)
HasSetDef(e) == e.is_dir /\ e.folder.set_def.exists
FolderRaises(e) == HasSetDef(e) /\ parse_song_folder(e.folder).kind = "raise"

ListingAllOrNothing ==
    (ls_pc = "responded" /\ ls_entries # <<>>) =>
        LET dirs == SelectSeq(ls_entries, HasSetDef)
        IN  IF \E i \in 1..Len(ls_entries) : FolderRaises(ls_entries[i])
            THEN /\ ls_response.status = 500
                 /\ DOMAIN ls_response.body = {"detail"}
            ELSE /\ ls_response.status = 200
                 /\ Len(ls_response.body.songs) = Len(dirs)
                 /\ \A i \in 1..Len(dirs) :
                       /\ ls_response.body.songs[i].song_id = dirs[i].name
                       /\ ls_response.body.songs[i] = parse_song_folder(dirs[i].folder).value

(* a 500 response after a folder was processed successfully, and with a    *)
(* directory without SET.def in the listing                                *)
ListingAllOrNothingWitness ==
    /\ ls_pc = "responded"
    /\ ls_response.status = 500
    /\ Len(ls_entries) = 3
    /\ ls_entries[1].name = <<"o", "n", "e">>
    /\ ls_entries[2].name = <<"n", "o", "_", "d", "e", "f">>
    /\ ls_entries[3].name = <<"b", "a", "d">>
    /\ ls_i = 3
    /\ Len(songs) = 1

----------------------------------------------------------------------------
(* Specifications. *)
Init == LineIdle /\ MetaIdle /\ SetIdle /\ ReadIdle /\ SongIdle /\ ListIdle

SpecLine == Init /\ [][LineNext]_vars
SpecMeta == Init /\ [][MetaNext]_vars
SpecSetDef == Init /\ [][SetNext]_vars
SpecRead == Init /\ [][ReadNext]_vars
SpecSong == Init /\ [][SongNext]_vars
SpecList == Init /\ [][ListNext]_vars

====
